---- MODULE Spec2Model ----
(***************************************************************************)
(* ThreadSafeList2D<T>: a doubly linked list whose public operations each  *)
(* take std::lock_guard<std::mutex> on the instance's mutex_.              *)
(*                                                                         *)
(* The heap is a finite set of node addresses; a node has the three fields *)
(* of struct Node.  Every public operation is executed statement by        *)
(* statement by the calling thread, between the construction of its        *)
(* lock_guard (Lock) and the guard's destruction at scope exit (Unlock).   *)
(*                                                                         *)
(* A deleted node leaves alloc; an access through a null or deleted        *)
(* pointer is undefined behaviour and sets ub, after which nothing is      *)
(* asserted about the program.  The local tmp of push_front and remove is  *)
(* never read and is left out.  size_ is a size_t; it is decremented only  *)
(* after a node was found, so it is kept as a plain integer.               *)
(***************************************************************************)
EXTENDS Integers, Sequences, FiniteSets, TLC

\* ---------------------------------------------------------------- bounds
NumThreads == 3
MaxNodes == 3
MaxVal == 2

Threads == 1..NumThreads
Nodes == 1..MaxNodes
Vals == 1..MaxVal
NULL == 0
NoThread == 0

VARIABLES
  head, tail, size_, mutex_,      \* the members of ThreadSafeList2D
  alloc, value, prev, next,       \* the heap: live nodes and their fields
  pc, op, arg, res,               \* per thread: position, call, argument, outcome
  node, found_node, prev_node, next_node, result,   \* per thread: locals
  ub,                             \* undefined behaviour has been executed
  snap, seqList, seqRes,          \* history: state at lock acquisition, sequential run
  acq, freed                      \* history: pushes of a test in order of acquisition,
                                  \*          nodes deleted by the destructor in order

list == <<head, tail, size_, alloc, value, prev, next>>
locals == <<node, found_node, prev_node, next_node, result>>
hist == <<snap, seqList, seqRes, acq, freed>>
vars == <<head, tail, size_, mutex_, alloc, value, prev, next, pc, op, arg, res,
          node, found_node, prev_node, next_node, result, ub, snap, seqList, seqRes,
          acq, freed>>

\* ------------------------------------------------------ outcomes of a call
NoRes == [k |-> "none", val |-> 0, n |-> 0, b |-> FALSE, vec |-> <<>>]
RetVoid == [NoRes EXCEPT !.k = "void"]
RetT(v) == [NoRes EXCEPT !.k = "T", !.val = v]
RetSize(n) == [NoRes EXCEPT !.k = "size_t", !.n = n]
RetBool(b) == [NoRes EXCEPT !.k = "bool", !.b = b]
RetVec(s) == [NoRes EXCEPT !.k = "vector", !.vec = s]
AcceessViolation == [NoRes EXCEPT !.k = "AcceessViolation"]
ElementNotFound == [NoRes EXCEPT !.k = "ElementNotFound"]
Exceptions == {"AcceessViolation", "ElementNotFound"}

\* ------------------------------------------------- observations of the heap
\* The nodes met by following the link nx from n, at most k of them.
RECURSIVE Chain(_, _, _, _)
Chain(nx, live, n, k) ==
  IF n = NULL \/ n \notin live \/ k = 0 THEN <<>>
  ELSE <<n>> \o Chain(nx, live, nx[n], k - 1)

FwdNodes == Chain(next, alloc, head, MaxNodes + 1)
BwdNodes == Chain(prev, alloc, tail, MaxNodes + 1)
ValuesOf(vl, ns) == [i \in 1..Len(ns) |-> vl[ns[i]]]
Fwd == ValuesOf(value, FwdNodes)
Bwd == ValuesOf(value, BwdNodes)
Reverse(s) == [i \in 1..Len(s) |-> s[Len(s) + 1 - i]]
Range(s) == {s[i] : i \in 1..Len(s)}

Heap == [head |-> head, tail |-> tail, size_ |-> size_, alloc |-> alloc,
         value |-> value, prev |-> prev, next |-> next]
NoSnap == [head |-> NULL, tail |-> NULL, size_ |-> 0, alloc |-> {},
           value |-> [n \in Nodes |-> 0], prev |-> [n \in Nodes |-> NULL],
           next |-> [n \in Nodes |-> NULL]]
SnapFwd == ValuesOf(snap.value, Chain(snap.next, snap.alloc, snap.head, MaxNodes + 1))

\* ------------------------------------------ the sequential run (on values)
RECURSIVE RemoveFirst(_, _)
RemoveFirst(s, v) ==
  IF s = <<>> THEN <<>>
  ELSE IF Head(s) = v THEN Tail(s)
  ELSE <<Head(s)>> \o RemoveFirst(Tail(s), v)

Contains(s, v) == \E i \in 1..Len(s) : s[i] = v

SeqEffect(o, v, s) ==
  CASE o = "push_front" -> <<v>> \o s
    [] o = "push_back" -> Append(s, v)
    [] o = "remove" -> RemoveFirst(s, v)
    [] OTHER -> s

SeqResult(o, v, s) ==
  CASE o = "front" -> IF s = <<>> THEN AcceessViolation ELSE RetT(s[1])
    [] o = "back" -> IF s = <<>> THEN AcceessViolation ELSE RetT(s[Len(s)])
    [] o = "size" -> RetSize(Len(s))
    [] o = "empty" -> RetBool(s = <<>>)
    [] o = "remove" -> IF Contains(s, v) THEN RetVoid ELSE ElementNotFound
    [] o = "get_fwd" -> RetVec(s)
    [] o = "get_bwd" -> RetVec(Reverse(s))
    [] OTHER -> RetVoid

\* ------------------------------------------------------------------- Init
\* ThreadSafeList2D() noexcept : head(nullptr), tail(nullptr), size_(0) {}
\* Every thread is about to make its first call.
Init ==
  /\ head = NULL /\ tail = NULL /\ size_ = 0
  /\ mutex_ = NoThread
  /\ alloc = {}
  /\ value = [n \in Nodes |-> 0]
  /\ prev = [n \in Nodes |-> NULL]
  /\ next = [n \in Nodes |-> NULL]
  /\ pc = [t \in Threads |-> "lock"]
  /\ op = [t \in Threads |-> "none"]
  /\ arg = [t \in Threads |-> 0]
  /\ res = [t \in Threads |-> NoRes]
  /\ node = [t \in Threads |-> NULL]
  /\ found_node = [t \in Threads |-> NULL]
  /\ prev_node = [t \in Threads |-> NULL]
  /\ next_node = [t \in Threads |-> NULL]
  /\ result = [t \in Threads |-> <<>>]
  /\ ub = FALSE
  /\ snap = NoSnap
  /\ seqList = <<>>
  /\ seqRes = [t \in Threads |-> NoRes]
  /\ acq = <<>>
  /\ freed = <<>>

\* ------------------------------------------------------- calling and locking
ArgOps == {"push_front", "push_back", "remove"}
NoArgOps == {"front", "back", "size", "empty", "get_fwd", "get_bwd"}
Pushes == {"push_front", "push_back"}

\* Variants of the lock_guard: none at all, and none in the inspections.
LockFree_none(o) == TRUE
LockFree_readers(o) == mutex_ = NoThread \/ o \in NoArgOps

\* std::lock_guard<std::mutex> lock(mutex_): blocks until the mutex is free.
LockFree(o) == mutex_ = NoThread

\* A thread outside the operations is at the lock_guard that opens its next
\* call.  Which operation that is, and with which argument, is local to the
\* thread and has no effect before the mutex is acquired, so both are drawn
\* here.  A push is called only while a node address is left for its new Node.
Lock(t) ==
  /\ ~ub
  /\ pc[t] = "lock"
  /\ \E o \in ArgOps \cup NoArgOps :
       /\ LockFree(o)
       /\ o \in Pushes => Cardinality(alloc) < MaxNodes
       /\ \E v \in (IF o \in ArgOps THEN Vals ELSE {0}) :
            /\ op' = [op EXCEPT ![t] = o]
            /\ arg' = [arg EXCEPT ![t] = v]
            /\ pc' = [pc EXCEPT ![t] = o]
            /\ seqList' = SeqEffect(o, v, seqList)
            /\ seqRes' = [seqRes EXCEPT ![t] = SeqResult(o, v, seqList)]
  /\ mutex_' = t
  /\ snap' = Heap
  /\ UNCHANGED <<list, res, locals, ub, acq, freed>>

\* Variant: a manual lock()/unlock() pair, which a throw jumps over.
ScopeExit_manual(r) == IF r.k \in Exceptions THEN "lock" ELSE "unlock"

\* Leaving the scope of a lock_guard, by return or by throw, runs its destructor.
ScopeExit(r) == "unlock"

\* ~lock_guard(): mutex_.unlock(); the locals of the call go out of scope, the
\* caller consumes the value or catches the exception and goes on to its next
\* call.
Unlock(t) ==
  /\ ~ub
  /\ pc[t] = "unlock"
  /\ mutex_' = NoThread
  /\ pc' = [pc EXCEPT ![t] = "lock"]
  /\ op' = [op EXCEPT ![t] = "none"]
  /\ arg' = [arg EXCEPT ![t] = 0]
  /\ res' = [res EXCEPT ![t] = NoRes]
  /\ node' = [node EXCEPT ![t] = NULL]
  /\ found_node' = [found_node EXCEPT ![t] = NULL]
  /\ prev_node' = [prev_node EXCEPT ![t] = NULL]
  /\ next_node' = [next_node EXCEPT ![t] = NULL]
  /\ result' = [result EXCEPT ![t] = <<>>]
  /\ snap' = NoSnap
  /\ seqRes' = [seqRes EXCEPT ![t] = NoRes]
  /\ UNCHANGED <<list, ub, seqList, acq, freed>>

\* An access through a pointer that is null or dangling.
Undefined ==
  /\ ub' = TRUE
  /\ UNCHANGED <<list, mutex_, pc, op, arg, res, locals, hist>>

\* The call of thread t finishes with outcome r and leaves the guarded scope.
Finish(t, r) ==
  /\ res' = [res EXCEPT ![t] = r]
  /\ pc' = [pc EXCEPT ![t] = ScopeExit(r)]

\* ------------------------------------------------------------ inspections
\* Variant: front() reads the other end.
front_tail(t) ==
  /\ ~ub
  /\ pc[t] = "front"
  /\ IF head = NULL THEN Finish(t, AcceessViolation) /\ UNCHANGED ub
     ELSE IF tail \in alloc THEN Finish(t, RetT(value[tail])) /\ UNCHANGED ub
     ELSE Undefined
  /\ UNCHANGED <<list, mutex_, op, arg, locals, hist>>

\* T front(): if (!head) throw AcceessViolation(); return head->value;
front(t) ==
  /\ ~ub
  /\ pc[t] = "front"
  /\ IF head = NULL THEN Finish(t, AcceessViolation) /\ UNCHANGED ub
     ELSE IF head \in alloc THEN Finish(t, RetT(value[head])) /\ UNCHANGED ub
     ELSE Undefined
  /\ UNCHANGED <<list, mutex_, op, arg, locals, hist>>

\* T back(): if (!tail) throw AcceessViolation(); return tail->value;
back(t) ==
  /\ ~ub
  /\ pc[t] = "back"
  /\ IF tail = NULL THEN Finish(t, AcceessViolation) /\ UNCHANGED ub
     ELSE IF tail \in alloc THEN Finish(t, RetT(value[tail])) /\ UNCHANGED ub
     ELSE Undefined
  /\ UNCHANGED <<list, mutex_, op, arg, locals, hist>>

\* size_t size() noexcept: return size_;
size(t) ==
  /\ ~ub
  /\ pc[t] = "size"
  /\ Finish(t, RetSize(size_))
  /\ UNCHANGED <<list, mutex_, op, arg, locals, ub, hist>>

\* Variant: the comparison is inverted.
empty_inverted(t) ==
  /\ ~ub
  /\ pc[t] = "empty"
  /\ Finish(t, RetBool(size_ # 0))
  /\ UNCHANGED <<list, mutex_, op, arg, locals, ub, hist>>

\* bool empty() noexcept: return size_ == 0;
empty(t) ==
  /\ ~ub
  /\ pc[t] = "empty"
  /\ Finish(t, RetBool(size_ = 0))
  /\ UNCHANGED <<list, mutex_, op, arg, locals, ub, hist>>

\* operator new: the address of the node it returns.  The program never
\* compares, orders or prints addresses, so runs that differ only in which
\* free address was returned are the same run up to renaming of the nodes; the
\* model takes the lowest free address (none when the heap bound is reached).
Fresh == {m \in Nodes \ alloc : \A k \in Nodes \ alloc : m <= k}

\* --------------------------------------------------------------- push_front
\* Node* node = new Node(val);   value(value), prev(nullptr), next(nullptr)
push_front_new(t) ==
  /\ ~ub
  /\ pc[t] = "push_front"
  /\ \E n \in Fresh :
       /\ alloc' = alloc \cup {n}
       /\ value' = [value EXCEPT ![n] = arg[t]]
       /\ prev' = [prev EXCEPT ![n] = NULL]
       /\ next' = [next EXCEPT ![n] = NULL]
       /\ node' = [node EXCEPT ![t] = n]
  /\ pc' = [pc EXCEPT ![t] = "pf_test"]
  /\ UNCHANGED <<head, tail, size_, mutex_, op, arg, res, found_node, prev_node,
                 next_node, result, ub, hist>>

\* if (head == nullptr) { head = tail = node; } else { node->next = head; ...
push_front_link(t) ==
  /\ ~ub
  /\ pc[t] = "pf_test"
  /\ IF head = NULL
       THEN /\ head' = node[t]
            /\ tail' = node[t]
            /\ pc' = [pc EXCEPT ![t] = "pf_inc"]
            /\ UNCHANGED <<next, ub>>
       ELSE IF node[t] \in alloc
         THEN /\ next' = [next EXCEPT ![node[t]] = head]
              /\ pc' = [pc EXCEPT ![t] = "pf_head"]
              /\ UNCHANGED <<head, tail, ub>>
         ELSE Undefined
  /\ UNCHANGED <<size_, mutex_, alloc, value, prev, op, arg, res, locals, hist>>

\* Variant: head is left on the old first node.
push_front_head_skip(t) ==
  /\ ~ub
  /\ pc[t] = "pf_head"
  /\ pc' = [pc EXCEPT ![t] = "pf_prev"]
  /\ UNCHANGED <<head, tail, size_, mutex_, alloc, value, prev, next, op, arg, res,
                 locals, ub, hist>>

\* head = node;
push_front_head(t) ==
  /\ ~ub
  /\ pc[t] = "pf_head"
  /\ head' = node[t]
  /\ pc' = [pc EXCEPT ![t] = "pf_prev"]
  /\ UNCHANGED <<tail, size_, mutex_, alloc, value, prev, next, op, arg, res,
                 locals, ub, hist>>

\* node->next->prev = node;
push_front_prev(t) ==
  /\ ~ub
  /\ pc[t] = "pf_prev"
  /\ IF node[t] \in alloc /\ next[node[t]] \in alloc
       THEN /\ prev' = [prev EXCEPT ![next[node[t]]] = node[t]]
            /\ pc' = [pc EXCEPT ![t] = "pf_inc"]
            /\ UNCHANGED ub
       ELSE Undefined
  /\ UNCHANGED <<head, tail, size_, mutex_, alloc, value, next, op, arg, res,
                 locals, hist>>

\* Variant: the count is not updated.
push_front_inc_skip(t) ==
  /\ ~ub
  /\ pc[t] = "pf_inc"
  /\ Finish(t, RetVoid)
  /\ UNCHANGED <<head, tail, size_, mutex_, alloc, value, prev, next, op, arg,
                 locals, ub, hist>>

\* size_++;
push_front_inc(t) ==
  /\ ~ub
  /\ pc[t] = "pf_inc"
  /\ size_' = size_ + 1
  /\ Finish(t, RetVoid)
  /\ UNCHANGED <<head, tail, mutex_, alloc, value, prev, next, op, arg, locals,
                 ub, hist>>

\* ---------------------------------------------------------------- push_back
\* Variant: the node is built with Node(val), whose prev is null.
push_back_new_noprev(t) ==
  /\ ~ub
  /\ pc[t] = "push_back"
  /\ \E n \in Fresh :
       /\ alloc' = alloc \cup {n}
       /\ value' = [value EXCEPT ![n] = arg[t]]
       /\ prev' = [prev EXCEPT ![n] = NULL]
       /\ next' = [next EXCEPT ![n] = NULL]
       /\ node' = [node EXCEPT ![t] = n]
  /\ pc' = [pc EXCEPT ![t] = "pb_test"]
  /\ UNCHANGED <<head, tail, size_, mutex_, op, arg, res, found_node, prev_node,
                 next_node, result, ub, hist>>

\* Node* node = new Node(val, tail);   value(value), prev(prev), next(nullptr)
push_back_new(t) ==
  /\ ~ub
  /\ pc[t] = "push_back"
  /\ \E n \in Fresh :
       /\ alloc' = alloc \cup {n}
       /\ value' = [value EXCEPT ![n] = arg[t]]
       /\ prev' = [prev EXCEPT ![n] = tail]
       /\ next' = [next EXCEPT ![n] = NULL]
       /\ node' = [node EXCEPT ![t] = n]
  /\ pc' = [pc EXCEPT ![t] = "pb_test"]
  /\ UNCHANGED <<head, tail, size_, mutex_, op, arg, res, found_node, prev_node,
                 next_node, result, ub, hist>>

\* if (head == nullptr) { head = tail = node; } else { tail->next = node; ...
push_back_link(t) ==
  /\ ~ub
  /\ pc[t] = "pb_test"
  /\ IF head = NULL
       THEN /\ head' = node[t]
            /\ tail' = node[t]
            /\ pc' = [pc EXCEPT ![t] = "pb_inc"]
            /\ UNCHANGED <<next, ub>>
       ELSE IF tail \in alloc
         THEN /\ next' = [next EXCEPT ![tail] = node[t]]
              /\ pc' = [pc EXCEPT ![t] = "pb_tail"]
              /\ UNCHANGED <<head, tail, ub>>
         ELSE Undefined
  /\ UNCHANGED <<size_, mutex_, alloc, value, prev, op, arg, res, locals, hist>>

\* Variant: tail is left on the old last node.
push_back_tail_skip(t) ==
  /\ ~ub
  /\ pc[t] = "pb_tail"
  /\ pc' = [pc EXCEPT ![t] = "pb_inc"]
  /\ UNCHANGED <<head, tail, size_, mutex_, alloc, value, prev, next, op, arg, res,
                 locals, ub, hist>>

\* tail = node;
push_back_tail(t) ==
  /\ ~ub
  /\ pc[t] = "pb_tail"
  /\ tail' = node[t]
  /\ pc' = [pc EXCEPT ![t] = "pb_inc"]
  /\ UNCHANGED <<head, size_, mutex_, alloc, value, prev, next, op, arg, res,
                 locals, ub, hist>>

\* size_++;
push_back_inc(t) ==
  /\ ~ub
  /\ pc[t] = "pb_inc"
  /\ size_' = size_ + 1
  /\ Finish(t, RetVoid)
  /\ UNCHANGED <<head, tail, mutex_, alloc, value, prev, next, op, arg, locals,
                 ub, hist>>

\* ------------------------------------------------------------------- remove
\* Variant: find is a public operation with a lock_guard of its own.
remove_find_locking(t) ==
  /\ ~ub
  /\ pc[t] = "remove"
  /\ mutex_ = NoThread
  /\ node' = [node EXCEPT ![t] = head]
  /\ pc' = [pc EXCEPT ![t] = "rm_scan"]
  /\ UNCHANGED <<list, mutex_, op, arg, res, found_node, prev_node, next_node,
                 result, ub, hist>>

\* Node* found_node = find(val);   find: Node* node = head;
remove_find(t) ==
  /\ ~ub
  /\ pc[t] = "remove"
  /\ node' = [node EXCEPT ![t] = head]
  /\ pc' = [pc EXCEPT ![t] = "rm_scan"]
  /\ UNCHANGED <<list, mutex_, op, arg, res, found_node, prev_node, next_node,
                 result, ub, hist>>

\* Variant: the scan passes over a match that has a later duplicate.
Match_last(n, v) ==
  /\ value[n] = v
  /\ ~\E m \in Range(Chain(next, alloc, next[n], MaxNodes)) : value[m] = v

\* if (node->value == val)
Match(n, v) == value[n] = v

\* find: while (node != nullptr) { if (node->value == val) return node;
\*                                 node = node->next; }  return nullptr;
find(t) ==
  /\ ~ub
  /\ pc[t] = "rm_scan"
  /\ IF node[t] = NULL
       THEN /\ found_node' = [found_node EXCEPT ![t] = NULL]
            /\ pc' = [pc EXCEPT ![t] = "rm_test"]
            /\ UNCHANGED <<node, ub>>
       ELSE IF node[t] \notin alloc THEN Undefined
       ELSE IF Match(node[t], arg[t])
         THEN /\ found_node' = [found_node EXCEPT ![t] = node[t]]
              /\ pc' = [pc EXCEPT ![t] = "rm_test"]
              /\ UNCHANGED <<node, ub>>
         ELSE /\ node' = [node EXCEPT ![t] = next[node[t]]]
              /\ UNCHANGED <<found_node, pc, ub>>
  /\ UNCHANGED <<list, mutex_, op, arg, res, prev_node, next_node, result, hist>>

\* Variant: size_-- placed after the if, so that a failed search reaches it.
remove_test_dec(t) ==
  /\ ~ub
  /\ pc[t] = "rm_test"
  /\ pc' = [pc EXCEPT ![t] = IF found_node[t] = NULL THEN "rm_dec"
                             ELSE IF found_node[t] = head THEN "rm_head"
                             ELSE IF found_node[t] = tail THEN "rm_tail"
                             ELSE "rm_mid"]
  /\ UNCHANGED <<list, mutex_, op, arg, res, locals, ub, hist>>

\* if (found_node) { if (found_node == head) .. else if (found_node == tail) ..
\*                   else .. } else { throw ElementNotFound(); }
remove_test(t) ==
  /\ ~ub
  /\ pc[t] = "rm_test"
  /\ IF found_node[t] = NULL THEN Finish(t, ElementNotFound)
     ELSE /\ pc' = [pc EXCEPT ![t] = IF found_node[t] = head THEN "rm_head"
                                     ELSE IF found_node[t] = tail THEN "rm_tail"
                                     ELSE "rm_mid"]
          /\ UNCHANGED res
  /\ UNCHANGED <<list, mutex_, op, arg, locals, ub, hist>>

\* head = head->next;
remove_head(t) ==
  /\ ~ub
  /\ pc[t] = "rm_head"
  /\ IF head \in alloc
       THEN /\ head' = next[head]
            /\ pc' = [pc EXCEPT ![t] = "rm_head2"]
            /\ UNCHANGED ub
       ELSE Undefined
  /\ UNCHANGED <<tail, size_, mutex_, alloc, value, prev, next, op, arg, res,
                 locals, hist>>

\* Variant: the else branch is missing, tail keeps pointing at the removed node.
remove_head2_notail(t) ==
  /\ ~ub
  /\ pc[t] = "rm_head2"
  /\ IF head = NULL
       THEN /\ pc' = [pc EXCEPT ![t] = "rm_delete"]
            /\ UNCHANGED <<prev, ub>>
       ELSE IF head \in alloc
         THEN /\ prev' = [prev EXCEPT ![head] = NULL]
              /\ pc' = [pc EXCEPT ![t] = "rm_delete"]
              /\ UNCHANGED ub
         ELSE Undefined
  /\ UNCHANGED <<head, tail, size_, mutex_, alloc, value, next, op, arg, res,
                 locals, hist>>

\* if (head) { head->prev = nullptr; } else { tail = nullptr; }
remove_head2(t) ==
  /\ ~ub
  /\ pc[t] = "rm_head2"
  /\ IF head = NULL
       THEN /\ tail' = NULL
            /\ pc' = [pc EXCEPT ![t] = "rm_delete"]
            /\ UNCHANGED <<prev, ub>>
       ELSE IF head \in alloc
         THEN /\ prev' = [prev EXCEPT ![head] = NULL]
              /\ pc' = [pc EXCEPT ![t] = "rm_delete"]
              /\ UNCHANGED <<tail, ub>>
         ELSE Undefined
  /\ UNCHANGED <<head, size_, mutex_, alloc, value, next, op, arg, res, locals, hist>>

\* tail = tail->prev;
remove_tail(t) ==
  /\ ~ub
  /\ pc[t] = "rm_tail"
  /\ IF tail \in alloc
       THEN /\ tail' = prev[tail]
            /\ pc' = [pc EXCEPT ![t] = "rm_tail2"]
            /\ UNCHANGED ub
       ELSE Undefined
  /\ UNCHANGED <<head, size_, mutex_, alloc, value, prev, next, op, arg, res,
                 locals, hist>>

\* if (tail) { tail->next = nullptr; }
remove_tail2(t) ==
  /\ ~ub
  /\ pc[t] = "rm_tail2"
  /\ IF tail = NULL
       THEN /\ pc' = [pc EXCEPT ![t] = "rm_delete"]
            /\ UNCHANGED <<next, ub>>
       ELSE IF tail \in alloc
         THEN /\ next' = [next EXCEPT ![tail] = NULL]
              /\ pc' = [pc EXCEPT ![t] = "rm_delete"]
              /\ UNCHANGED ub
         ELSE Undefined
  /\ UNCHANGED <<head, tail, size_, mutex_, alloc, value, prev, op, arg, res,
                 locals, hist>>

\* Node* prev_node = found_node->prev; Node* next_node = found_node->next;
remove_mid(t) ==
  /\ ~ub
  /\ pc[t] = "rm_mid"
  /\ IF found_node[t] \in alloc
       THEN /\ prev_node' = [prev_node EXCEPT ![t] = prev[found_node[t]]]
            /\ next_node' = [next_node EXCEPT ![t] = next[found_node[t]]]
            /\ pc' = [pc EXCEPT ![t] = "rm_mid2"]
            /\ UNCHANGED ub
       ELSE Undefined
  /\ UNCHANGED <<list, mutex_, op, arg, res, node, found_node, result, hist>>

\* prev_node->next = next_node;
remove_mid2(t) ==
  /\ ~ub
  /\ pc[t] = "rm_mid2"
  /\ IF prev_node[t] \in alloc
       THEN /\ next' = [next EXCEPT ![prev_node[t]] = next_node[t]]
            /\ pc' = [pc EXCEPT ![t] = "rm_mid3"]
            /\ UNCHANGED ub
       ELSE Undefined
  /\ UNCHANGED <<head, tail, size_, mutex_, alloc, value, prev, op, arg, res,
                 locals, hist>>

\* next_node->prev = prev_node;
remove_mid3(t) ==
  /\ ~ub
  /\ pc[t] = "rm_mid3"
  /\ IF next_node[t] \in alloc
       THEN /\ prev' = [prev EXCEPT ![next_node[t]] = prev_node[t]]
            /\ pc' = [pc EXCEPT ![t] = "rm_delete"]
            /\ UNCHANGED ub
       ELSE Undefined
  /\ UNCHANGED <<head, tail, size_, mutex_, alloc, value, next, op, arg, res,
                 locals, hist>>

\* delete found_node;   the memory of the node is returned to the allocator
remove_delete(t) ==
  /\ ~ub
  /\ pc[t] = "rm_delete"
  /\ IF found_node[t] \in alloc
       THEN /\ alloc' = alloc \ {found_node[t]}
            /\ value' = [value EXCEPT ![found_node[t]] = 0]
            /\ prev' = [prev EXCEPT ![found_node[t]] = NULL]
            /\ next' = [next EXCEPT ![found_node[t]] = NULL]
            /\ pc' = [pc EXCEPT ![t] = "rm_dec"]
            /\ UNCHANGED ub
       ELSE Undefined
  /\ UNCHANGED <<head, tail, size_, mutex_, op, arg, res, locals, hist>>

\* Variant: the count is not updated.
remove_dec_skip(t) ==
  /\ ~ub
  /\ pc[t] = "rm_dec"
  /\ Finish(t, RetVoid)
  /\ UNCHANGED <<head, tail, size_, mutex_, alloc, value, prev, next, op, arg,
                 locals, ub, hist>>

\* size_--;
remove_dec(t) ==
  /\ ~ub
  /\ pc[t] = "rm_dec"
  /\ size_' = size_ - 1
  /\ Finish(t, RetVoid)
  /\ UNCHANGED <<head, tail, mutex_, alloc, value, prev, next, op, arg, locals,
                 ub, hist>>

\* ------------------------------------------------------ get_fwd and get_bwd
\* std::vector<T> result; Node* node = head;
get_fwd(t) ==
  /\ ~ub
  /\ pc[t] = "get_fwd"
  /\ result' = [result EXCEPT ![t] = <<>>]
  /\ node' = [node EXCEPT ![t] = head]
  /\ pc' = [pc EXCEPT ![t] = "gf_loop"]
  /\ UNCHANGED <<list, mutex_, op, arg, res, found_node, prev_node, next_node,
                 ub, hist>>

\* Variant: the traversal moves head along with node.
get_fwd_loop_head(t) ==
  /\ ~ub
  /\ pc[t] = "gf_loop"
  /\ IF node[t] = NULL
       THEN Finish(t, RetVec(result[t])) /\ UNCHANGED <<node, result, head, ub>>
       ELSE IF node[t] \in alloc
         THEN /\ result' = [result EXCEPT ![t] = Append(result[t], value[node[t]])]
              /\ node' = [node EXCEPT ![t] = next[node[t]]]
              /\ head' = next[node[t]]
              /\ UNCHANGED <<pc, res, ub>>
         ELSE Undefined
  /\ UNCHANGED <<tail, size_, alloc, value, prev, next, mutex_, op, arg,
                 found_node, prev_node, next_node, hist>>

\* while (node != nullptr) { result.push_back(node->value); node = node->next; }
\* return result;
get_fwd_loop(t) ==
  /\ ~ub
  /\ pc[t] = "gf_loop"
  /\ IF node[t] = NULL
       THEN Finish(t, RetVec(result[t])) /\ UNCHANGED <<node, result, ub>>
       ELSE IF node[t] \in alloc
         THEN /\ result' = [result EXCEPT ![t] = Append(result[t], value[node[t]])]
              /\ node' = [node EXCEPT ![t] = next[node[t]]]
              /\ UNCHANGED <<pc, res, ub>>
         ELSE Undefined
  /\ UNCHANGED <<list, mutex_, op, arg, found_node, prev_node, next_node, hist>>

\* std::vector<T> result; Node* node = tail;
get_bwd(t) ==
  /\ ~ub
  /\ pc[t] = "get_bwd"
  /\ result' = [result EXCEPT ![t] = <<>>]
  /\ node' = [node EXCEPT ![t] = tail]
  /\ pc' = [pc EXCEPT ![t] = "gb_loop"]
  /\ UNCHANGED <<list, mutex_, op, arg, res, found_node, prev_node, next_node,
                 ub, hist>>

\* while (node != nullptr) { result.push_back(node->value); node = node->prev; }
\* return result;
get_bwd_loop(t) ==
  /\ ~ub
  /\ pc[t] = "gb_loop"
  /\ IF node[t] = NULL
       THEN Finish(t, RetVec(result[t])) /\ UNCHANGED <<node, result, ub>>
       ELSE IF node[t] \in alloc
         THEN /\ result' = [result EXCEPT ![t] = Append(result[t], value[node[t]])]
              /\ node' = [node EXCEPT ![t] = prev[node[t]]]
              /\ UNCHANGED <<pc, res, ub>>
         ELSE Undefined
  /\ UNCHANGED <<list, mutex_, op, arg, found_node, prev_node, next_node, hist>>

\* ------------------------------------------------------------ specification
push_front(t) ==
  \/ push_front_new(t) \/ push_front_link(t) \/ push_front_head(t)
  \/ push_front_prev(t) \/ push_front_inc(t)

push_back(t) ==
  \/ push_back_new(t) \/ push_back_link(t) \/ push_back_tail(t) \/ push_back_inc(t)

remove(t) ==
  \/ remove_find(t) \/ find(t) \/ remove_test(t)
  \/ remove_head(t) \/ remove_head2(t)
  \/ remove_tail(t) \/ remove_tail2(t)
  \/ remove_mid(t) \/ remove_mid2(t) \/ remove_mid3(t)
  \/ remove_delete(t) \/ remove_dec(t)

Next ==
  \E t \in Threads :
    \/ Lock(t) \/ Unlock(t)
    \/ front(t) \/ back(t) \/ size(t) \/ empty(t)
    \/ push_front(t) \/ push_back(t) \/ remove(t)
    \/ get_fwd(t) \/ get_fwd_loop(t) \/ get_bwd(t) \/ get_bwd_loop(t)

Spec == Init /\ [][Next]_vars


\* ------------------------------------------------------------------- tests
\* The multithreaded blocks of main: every thread makes one call, the main
\* thread joins them all, then (add and remove) starts the next round.

\* std::thread(&ThreadSafeList2D<int>::o, &list, v) reaches its lock_guard and
\* acquires the mutex.
Acquire(t, o, v) ==
  /\ ~ub
  /\ LockFree(o)
  /\ mutex_' = t
  /\ op' = [op EXCEPT ![t] = o]
  /\ arg' = [arg EXCEPT ![t] = v]
  /\ pc' = [pc EXCEPT ![t] = o]
  /\ snap' = Heap
  /\ seqList' = SeqEffect(o, v, seqList)
  /\ seqRes' = [seqRes EXCEPT ![t] = SeqResult(o, v, seqList)]
  /\ acq' = IF o \in Pushes THEN Append(acq, <<o, v>>) ELSE acq
  /\ UNCHANGED <<list, res, locals, ub, freed>>

\* The call returns or throws, its lock_guard releases the mutex, the thread
\* ends and is joined; what it called and how that ended stays on record.
Join(t) ==
  /\ ~ub
  /\ pc[t] = "unlock"
  /\ mutex_' = NoThread
  /\ pc' = [pc EXCEPT ![t] = IF op[t] \in Pushes THEN "joined"
                             ELSE IF op[t] = "remove" THEN "removed"
                             ELSE "checked"]
  /\ node' = [node EXCEPT ![t] = NULL]
  /\ found_node' = [found_node EXCEPT ![t] = NULL]
  /\ prev_node' = [prev_node EXCEPT ![t] = NULL]
  /\ next_node' = [next_node EXCEPT ![t] = NULL]
  /\ result' = [result EXCEPT ![t] = <<>>]
  /\ snap' = NoSnap
  /\ UNCHANGED <<list, op, arg, res, ub, seqList, seqRes, acq, freed>>

\* correct multithreaded push_back / push_front: thread i pushes i.
PushOnce(t) ==
  /\ pc[t] = "lock"
  /\ \E o \in Pushes : Acquire(t, o, t)

NextPush ==
  \E t \in Threads :
    \/ PushOnce(t) \/ push_front(t) \/ push_back(t) \/ Join(t)

SpecPush == Init /\ [][NextPush]_vars

\* threads_add.at(i).join() has returned for every i.
AddJoined ==
  \A u \in Threads : pc[u] # "lock" /\ (op[u] \in Pushes => pc[u] = "joined")
\* threads_remove.at(i).join() has returned for every i.
AllRemoved == \A u \in Threads : pc[u] \in {"removed", "checked"}

\* ASSERT_TRUE(list.empty()); ASSERT_TRUE(list.size() == 0);  after the joins
MainCheck(t) ==
  /\ pc[t] = "removed"
  /\ AllRemoved
  /\ \E o \in {"empty", "size"} : Acquire(t, o, 0)

\* correct multithreaded add and remove: thread i of threads_add calls
\* push_front(i); after the joins thread i of threads_remove calls remove(i).
AddOnce(t) ==
  /\ pc[t] = "lock"
  /\ Acquire(t, "push_front", t)

RemoveOnce(t) ==
  /\ pc[t] = "joined"
  /\ AddJoined
  /\ Acquire(t, "remove", t)

NextAddRemove ==
  \E t \in Threads :
    \/ AddOnce(t) \/ push_front(t)
    \/ RemoveOnce(t) \/ remove(t)
    \/ MainCheck(t) \/ empty(t) \/ size(t)
    \/ Join(t)

SpecAddRemove == Init /\ [][NextAddRemove]_vars

\* The steps of thread t between acquiring the mutex and releasing it.
Body(t) == push_front(t) \/ remove(t) \/ empty(t) \/ size(t) \/ Join(t)

\* The steps in which thread t is at a lock_guard and takes the mutex.
Acquisition(t) == AddOnce(t) \/ RemoveOnce(t) \/ MainCheck(t)

\* A running thread keeps executing, and a thread that keeps finding the mutex
\* free at its lock_guard eventually takes it.
Fairness == \A t \in Threads : WF_vars(Body(t)) /\ SF_vars(Acquisition(t))

SpecFair == SpecAddRemove /\ Fairness

\* The same test on a list with equal values: every thread pushes the value
\* DupVal or the value OtherVal; after the joins every thread calls
\* remove(DupVal).
DupVal == 1
OtherVal == 2

AddDup(t) ==
  /\ pc[t] = "lock"
  /\ \E v \in {DupVal, OtherVal} : Acquire(t, "push_back", v)

RemoveDup(t) ==
  /\ pc[t] = "joined"
  /\ AddJoined
  /\ Acquire(t, "remove", DupVal)

NextDup ==
  \E t \in Threads :
    \/ AddDup(t) \/ push_back(t)
    \/ RemoveDup(t) \/ remove(t)
    \/ Join(t)

SpecDup == Init /\ [][NextDup]_vars

\* ---------------------------------------------------------------- destructor
\* ~ThreadSafeList2D() is run by the thread that owns the list; it takes no
\* lock_guard.  node[t] is its local tmp.
DtorPcs == {"dtor_while", "dtor_advance", "dtor_delete", "destroyed"}
Destroying == \E t \in Threads : pc[t] \in DtorPcs

\* Thread t is in no call on the list.
Outside(t) == pc[t] \in {"lock", "joined", "removed", "checked"}

\* Variant: the destructor starts with a lock_guard on mutex_.
Destroy_locked(t) ==
  /\ ~ub
  /\ Outside(t)
  /\ ~Destroying
  /\ mutex_ = NoThread
  /\ mutex_' = t
  /\ pc' = [pc EXCEPT ![t] = "dtor_while"]
  /\ node' = [node EXCEPT ![t] = NULL]
  /\ snap' = Heap
  /\ acq' = Append(acq, <<"~ThreadSafeList2D", mutex_>>)
  /\ UNCHANGED <<list, op, arg, res, found_node, prev_node, next_node,
                 result, ub, seqList, seqRes, freed>>

\* ~ThreadSafeList2D() { Node* tmp = nullptr;
\* The history records the thread that is inside a call at this moment.
Destroy(t) ==
  /\ ~ub
  /\ Outside(t)
  /\ ~Destroying
  /\ pc' = [pc EXCEPT ![t] = "dtor_while"]
  /\ node' = [node EXCEPT ![t] = NULL]
  /\ snap' = IF mutex_ = NoThread THEN Heap ELSE snap
  /\ acq' = Append(acq, <<"~ThreadSafeList2D", mutex_>>)
  /\ UNCHANGED <<list, mutex_, op, arg, res, found_node, prev_node, next_node,
                 result, ub, seqList, seqRes, freed>>

\* while (head) { tmp = head; ... }  head = nullptr;
dtor_while(t) ==
  /\ ~ub
  /\ pc[t] = "dtor_while"
  /\ IF head # NULL
       THEN /\ node' = [node EXCEPT ![t] = head]
            /\ pc' = [pc EXCEPT ![t] = "dtor_advance"]
       ELSE /\ pc' = [pc EXCEPT ![t] = "destroyed"]
            /\ UNCHANGED node
  /\ UNCHANGED <<list, mutex_, op, arg, res, found_node, prev_node, next_node,
                 result, ub, hist>>

\* head = head->next;
dtor_advance(t) ==
  /\ ~ub
  /\ pc[t] = "dtor_advance"
  /\ IF head \in alloc
       THEN /\ head' = next[head]
            /\ pc' = [pc EXCEPT ![t] = "dtor_delete"]
            /\ UNCHANGED ub
       ELSE Undefined
  /\ UNCHANGED <<tail, size_, alloc, value, prev, next, mutex_, op, arg, res,
                 locals, hist>>

\* Variant: the node is not deleted.
dtor_delete_skip(t) ==
  /\ ~ub
  /\ pc[t] = "dtor_delete"
  /\ pc' = [pc EXCEPT ![t] = "dtor_while"]
  /\ UNCHANGED <<list, mutex_, op, arg, res, locals, ub, hist>>

\* delete tmp;
dtor_delete(t) ==
  /\ ~ub
  /\ pc[t] = "dtor_delete"
  /\ IF node[t] \in alloc
       THEN /\ alloc' = alloc \ {node[t]}
            /\ value' = [value EXCEPT ![node[t]] = 0]
            /\ prev' = [prev EXCEPT ![node[t]] = NULL]
            /\ next' = [next EXCEPT ![node[t]] = NULL]
            /\ freed' = Append(freed, node[t])
            /\ pc' = [pc EXCEPT ![t] = "dtor_while"]
            /\ UNCHANGED ub
       ELSE Undefined /\ UNCHANGED freed
  /\ UNCHANGED <<head, tail, size_, mutex_, op, arg, res, locals, snap,
                 seqList, seqRes, acq>>

destructor(t) == dtor_while(t) \/ dtor_advance(t) \/ dtor_delete(t)

\* A call on the list: none is started once the destructor has begun.
Call(t) == ~Destroying /\ Lock(t)

\* The calls of thread t from lock_guard to ~lock_guard.
Operation(t) ==
  \/ Call(t) \/ Unlock(t)
  \/ front(t) \/ back(t) \/ size(t) \/ empty(t)
  \/ push_front(t) \/ push_back(t) \/ remove(t)
  \/ get_fwd(t) \/ get_fwd_loop(t) \/ get_bwd(t) \/ get_bwd_loop(t)

\* The owner destroys the list when no call is in flight.
DestroyJoined(t) ==
  /\ \A u \in Threads : pc[u] = "lock"
  /\ Destroy(t)

NextDtor == \E t \in Threads : Operation(t) \/ DestroyJoined(t) \/ destructor(t)
SpecDtor == Init /\ [][NextDtor]_vars

\* The add-and-remove test without the second join: once the pushes are
\* joined, one thread goes on as the owner and lets the list go out of scope
\* while the remove calls of the other threads may be in flight.
DestroyUnjoined(t) ==
  /\ pc[t] = "joined"
  /\ AddJoined
  /\ Destroy(t)

\* A remove call that starts before the list goes out of scope.
RemoveInFlight(t) == ~Destroying /\ RemoveOnce(t)

NextRace ==
  \E t \in Threads :
    \/ AddOnce(t) \/ push_front(t) \/ RemoveInFlight(t) \/ remove(t) \/ Join(t)
    \/ DestroyUnjoined(t) \/ destructor(t)
SpecRace == Init /\ [][NextRace]_vars

\* ------------------------------------------------------------------- types
TypeOK ==
  /\ head \in Nodes \cup {NULL} /\ tail \in Nodes \cup {NULL}
  /\ size_ \in 0..MaxNodes
  /\ mutex_ \in Threads \cup {NoThread}
  /\ alloc \subseteq Nodes
  /\ ub = FALSE

\* =================================================================== claims
Inside(t) == pc[t] # "lock"
Acquired(t) == mutex_ = t /\ pc[t] = op[t]
Quiescent == mutex_ = NoThread
Done(t, o) == pc[t] = "unlock" /\ op[t] = o

\* The members and links of the heap record h form one list of h.size_ nodes.
WellFormed(h) ==
  LET c == Chain(h.next, h.alloc, h.head, MaxNodes + 1) IN
  /\ (h.head = NULL) = (h.size_ = 0)
  /\ (h.tail = NULL) = (h.size_ = 0)
  /\ Len(c) = h.size_
  /\ Range(c) = h.alloc
  /\ Cardinality(h.alloc) = h.size_
  /\ h.size_ >= 1 => /\ c[h.size_] = h.tail
                     /\ h.next[h.tail] = NULL
                     /\ h.prev[h.head] = NULL
  /\ \A i \in 2..Len(c) : h.prev[c[i]] = c[i - 1]

\* C1: every concurrent execution is equivalent to the sequential execution of
\* the same operations in lock-acquisition order: an operation that has
\* finished holds the result the sequential run gives it, the list contents
\* after it (and whenever the lock is free) are those of the sequential run,
\* and the state an operation finds when it acquires the lock is never a
\* partly updated one.
C1_Linearizable ==
  /\ \A t \in Threads : pc[t] = "unlock" => res[t] = seqRes[t] /\ Fwd = seqList
  /\ Quiescent => Fwd = seqList
  /\ \A t \in Threads : Acquired(t) => Heap = snap /\ WellFormed(snap)
  /\ ~ub

\* C1 witness: a remove has failed on a full list while another thread waits
\* for the lock with its own call.
C1_Witness ==
  \E t, u \in Threads :
    /\ t # u
    /\ Done(t, "remove") /\ res[t] = ElementNotFound
    /\ pc[u] = "lock"
    /\ Len(seqList) = MaxNodes

\* C2: mutual exclusion: at most one thread is inside the body of a public
\* operation, and a thread inside a body holds mutex_.
C2_MutualExclusion ==
  /\ \A t, u \in Threads : Inside(t) /\ Inside(u) => t = u
  /\ \A t \in Threads : Inside(t) => mutex_ = t

\* C2 witness: one thread is between two link updates of push_front while
\* another has called an operation and is held at the lock.
C2_Witness ==
  \E t, u \in Threads :
    /\ t # u
    /\ pc[t] = "pf_prev" /\ mutex_ = t
    /\ pc[u] = "lock"

\* C3: whenever no operation holds the lock, head is null iff tail is null iff
\* size_ = 0.
C3_EmptyIff ==
  Quiescent => /\ (head = NULL) = (tail = NULL)
               /\ (tail = NULL) = (size_ = 0)

\* C3 witness: the lock is free on a list of one node, whose head is its tail.
C3_Witness ==
  /\ Quiescent
  /\ size_ = 1
  /\ head # NULL /\ head = tail

\* C4: whenever no operation holds the lock and size_ >= 1, following next from
\* head visits exactly size_ distinct nodes, the last of which is tail, and
\* tail->next is null; the nodes of the chain are exactly the allocated ones.
C4_Chain ==
  Quiescent /\ size_ >= 1 =>
    /\ Len(FwdNodes) = size_
    /\ Cardinality(Range(FwdNodes)) = size_
    /\ FwdNodes[size_] = tail
    /\ \A i \in 1..(size_ - 1) : FwdNodes[i] # tail
    /\ next[tail] = NULL
    /\ Range(FwdNodes) = alloc

\* C4 witness: the lock is free and the chain has MaxNodes nodes.
C4_Witness ==
  /\ Quiescent
  /\ size_ = MaxNodes
  /\ Len(FwdNodes) = MaxNodes

\* C5: whenever no operation holds the lock, prev is the exact inverse of next
\* (head->prev is null, n->prev->next = n for n # head, n->next->prev = n for
\* n # tail), and the backward traversal is the reverse of the forward one, as
\* computed by get_fwd and get_bwd.
C5_PrevInverse ==
  /\ Quiescent =>
       /\ head # NULL => prev[head] = NULL
       /\ \A n \in alloc : n # head => prev[n] \in alloc /\ next[prev[n]] = n
       /\ \A n \in alloc : n # tail => next[n] \in alloc /\ prev[next[n]] = n
       /\ Bwd = Reverse(Fwd)
  /\ \A t \in Threads :
       /\ Done(t, "get_fwd") => res[t] = RetVec(SnapFwd)
       /\ Done(t, "get_bwd") => res[t] = RetVec(Reverse(SnapFwd))

\* C5 witness: get_bwd has returned the three values of a list in reverse.
C5_Witness ==
  \E t \in Threads :
    /\ Done(t, "get_bwd")
    /\ Len(res[t].vec) = 3
    /\ res[t].vec[1] # res[t].vec[3]

\* The first node of the chain c of heap h whose value is v.
FirstMatch(h, c, v) == c[CHOOSE i \in 1..Len(c) : h.value[c[i]] = v /\ \A j \in 1..(i - 1) : h.value[c[j]] # v]
SnapNodes == Chain(snap.next, snap.alloc, snap.head, MaxNodes + 1)

\* C6: remove(val) on a list that contains val deletes exactly the first node
\* from the front whose value is val: the forward sequence loses its first
\* occurrence of val and nothing else, and size_ decreases by exactly 1.
C6_RemoveFirst ==
  \A t \in Threads :
    Done(t, "remove") /\ Contains(SnapFwd, arg[t]) =>
      /\ res[t] = RetVoid
      /\ Fwd = RemoveFirst(SnapFwd, arg[t])
      /\ size_ = snap.size_ - 1
      /\ alloc = snap.alloc \ {FirstMatch(snap, SnapNodes, arg[t])}
      /\ \A n \in alloc : value[n] = snap.value[n]
      /\ Bwd = Reverse(Fwd)

\* C6 witness: the first of two equal values, an interior node, was removed.
C6_Witness ==
  \E t \in Threads :
    /\ Done(t, "remove") /\ arg[t] = 1
    /\ SnapFwd = <<2, 1, 1>>
    /\ Fwd = <<2, 1>>

\* C7: remove(val) on a list without val reports ElementNotFound and at no
\* point of the call modifies head, tail, size_, a value or a link.
C7_RemoveAbsent ==
  \A t \in Threads :
    /\ mutex_ = t /\ op[t] = "remove" /\ ~Contains(SnapFwd, arg[t]) => Heap = snap
    /\ Done(t, "remove") /\ ~Contains(SnapFwd, arg[t]) => res[t] = ElementNotFound

\* C7 witness: a remove of an absent value has failed on a list of two nodes.
C7_Witness ==
  \E t \in Threads :
    /\ Done(t, "remove") /\ arg[t] = 2
    /\ SnapFwd = <<1, 1>>
    /\ res[t] = ElementNotFound

\* C8: front() and back() report AcceessViolation exactly when size_ = 0 under
\* the lock, and then change nothing; otherwise front() returns the first and
\* back() the last value of the forward sequence.
C8_Endpoints ==
  \A t \in Threads :
    /\ Done(t, "front") =>
         /\ (res[t] = AcceessViolation) = (size_ = 0)
         /\ size_ >= 1 => res[t] = RetT(Fwd[1])
         /\ Heap = snap
    /\ Done(t, "back") =>
         /\ (res[t] = AcceessViolation) = (size_ = 0)
         /\ size_ >= 1 => res[t] = RetT(Fwd[Len(Fwd)])
         /\ Heap = snap

\* C8 witness: front() returned the first value of a list whose ends differ.
C8_Witness ==
  \E t \in Threads :
    /\ Done(t, "front")
    /\ Fwd = <<1, 2>>
    /\ res[t] = RetT(1)

\* C8 second case: back() failed on an empty list.
C8_WitnessEmpty ==
  \E t \in Threads : Done(t, "back") /\ res[t] = AcceessViolation /\ size_ = 0

\* C9: push_front(v) turns the forward sequence s into <v> followed by s and
\* push_back(v) into s followed by <v>; size_ grows by exactly 1, the other
\* end is unchanged when s is not empty, and both ends are v when s is empty.
C9_Push ==
  \A t \in Threads :
    /\ Done(t, "push_front") =>
         /\ Fwd = <<arg[t]>> \o SnapFwd
         /\ size_ = snap.size_ + 1
         /\ value[head] = arg[t]
         /\ snap.size_ >= 1 => tail = snap.tail /\ value[tail] = snap.value[snap.tail]
         /\ snap.size_ = 0 => value[tail] = arg[t]
    /\ Done(t, "push_back") =>
         /\ Fwd = Append(SnapFwd, arg[t])
         /\ size_ = snap.size_ + 1
         /\ value[tail] = arg[t]
         /\ snap.size_ >= 1 => head = snap.head /\ value[head] = snap.value[snap.head]
         /\ snap.size_ = 0 => value[head] = arg[t]

\* C9 witness: push_front(2) has completed on the list <1, 1>.
C9_Witness ==
  \E t \in Threads :
    /\ Done(t, "push_front") /\ arg[t] = 2
    /\ SnapFwd = <<1, 1>>
    /\ Fwd = <<2, 1, 1>>

\* C10: the lock is released on every exit path: when no thread is inside a
\* public operation, also after a call has thrown, mutex_ is free and a waiting
\* call can acquire it.
C10_LockReleased ==
  (\A t \in Threads : ~Inside(t)) =>
    /\ mutex_ = NoThread
    /\ \A u \in Threads : pc[u] = "lock" => ENABLED Lock(u)

\* C10 witness: front() has thrown and is leaving its scope while another
\* thread waits for the lock.
C10_Witness ==
  \E t, u \in Threads :
    /\ t # u
    /\ Done(t, "front") /\ res[t] = AcceessViolation
    /\ pc[u] = "lock"

\* The values pushed so far by operation o, in order of lock acquisition.
AcqVals(o) ==
  LET c == SelectSeq(acq, LAMBDA e : e[1] = o) IN [i \in 1..Len(c) |-> c[i][2]]
AllJoined == \A t \in Threads : pc[t] = "joined"

\* C11: no lost insertions: once N threads have each pushed one distinct value
\* (by push_back or push_front) on an empty list and all have returned,
\* size_ = N and the forward sequence holds every pushed value exactly once.
C11_NoLostPush ==
  AllJoined =>
    /\ size_ = NumThreads
    /\ Len(Fwd) = NumThreads
    /\ Range(Fwd) = {arg[t] : t \in Threads}
    /\ Cardinality(Range(Fwd)) = NumThreads
    /\ ~ub

\* C11 witness: all threads have returned from push_back and the values are
\* not in thread order.
C11_Witness ==
  /\ AllJoined
  /\ \A t \in Threads : op[t] = "push_back"
  /\ Fwd[1] = NumThreads

\* C20: with pushes only, whenever the lock is free the forward sequence is the
\* push_front values in reverse order of lock acquisition followed by the
\* push_back values in order of lock acquisition.
C20_PushOrder ==
  Quiescent => Fwd = Reverse(AcqVals("push_front")) \o AcqVals("push_back")

\* C20 witness: all threads have returned, push_front and push_back were both
\* used, and a push_back acquired the lock first.
C20_Witness ==
  /\ AllJoined
  /\ Len(AcqVals("push_front")) = 2
  /\ acq[1][1] = "push_back"
  /\ Fwd[Len(Fwd)] = acq[1][2]

\* C12: after N threads have pushed 1..N with push_front and returned, and N
\* threads have each removed one distinct value of 1..N and returned, no remove
\* has reported ElementNotFound, head and tail are null, size_ = 0, and
\* empty() returns true and size() returns 0.
C12_AddRemove ==
  /\ AllRemoved =>
       /\ \A t \in Threads : op[t] = "remove" => res[t] = RetVoid
       /\ head = NULL /\ tail = NULL /\ size_ = 0
       /\ alloc = {}
  /\ \A t \in Threads :
       /\ Done(t, "empty") => res[t] = RetBool(TRUE)
       /\ Done(t, "size") => res[t] = RetSize(0)
  /\ ~ub

\* C12 witness: all removes have returned and the main thread's empty() is
\* about to return.
C12_Witness ==
  \E t \in Threads :
    /\ Done(t, "empty")
    /\ \A u \in Threads \ {t} : pc[u] = "removed" /\ res[u] = RetVoid
    /\ Len(acq) = NumThreads

\* The number of entries v of the sequence s.
Count(s, v) == Cardinality({i \in 1..Len(s) : s[i] = v})
Succeeded == {t \in Threads : pc[t] = "removed" /\ res[t] = RetVoid}
Failed == {t \in Threads : pc[t] = "removed" /\ res[t] = ElementNotFound}

\* C19: when m threads call remove(v) on a list with k <= m occurrences of v
\* and nobody pushes, exactly k calls succeed and m - k report
\* ElementNotFound; afterwards the list holds no v, size_ has decreased by
\* exactly k without passing below 0, and no node was released twice.
C19_RemoveDup ==
  LET k == Count(AcqVals("push_back"), DupVal) IN
  /\ AllRemoved =>
       /\ Cardinality(Succeeded) = k
       /\ Cardinality(Failed) = NumThreads - k
       /\ ~Contains(Fwd, DupVal)
       /\ size_ = NumThreads - k
       /\ Cardinality(alloc) = NumThreads - k
  /\ size_ >= 0
  /\ ~ub

\* C19 witness: all removes have returned; one of them found the only
\* occurrence of v, the others failed.
C19_Witness ==
  /\ AllRemoved
  /\ Cardinality(Succeeded) = 1
  /\ Cardinality(Failed) = NumThreads - 1
  /\ size_ = NumThreads - 1

Empty(h) == h.size_ = 0 /\ h.head = NULL /\ h.tail = NULL
Populated(h) == h.size_ >= 1 /\ h.head # NULL /\ h.tail # NULL

\* C13: the list is Empty or Populated; an operation turns Empty into
\* Populated only if it is a push, and Populated into Empty only if it is a
\* successful remove that started with size_ = 1; pushes always end Populated,
\* and every other operation ends in the logical state it started in.
C13_EmptyPopulated ==
  /\ Quiescent => Empty(Heap) \/ Populated(Heap)
  /\ \A t \in Threads : pc[t] = "unlock" =>
       /\ Empty(Heap) \/ Populated(Heap)
       /\ op[t] \in Pushes => Populated(Heap)
       /\ op[t] = "remove" /\ res[t] = RetVoid =>
            /\ Populated(snap)
            /\ Empty(Heap) = (snap.size_ = 1)
       /\ ~(op[t] \in Pushes \/ (op[t] = "remove" /\ res[t] = RetVoid)) =>
            Empty(Heap) = Empty(snap)

\* C13 witness: a remove has taken the last node, Populated to Empty.
C13_Witness ==
  \E t \in Threads :
    /\ Done(t, "remove") /\ res[t] = RetVoid
    /\ Populated(snap) /\ Empty(Heap)

\* C14: empty() returns true exactly when size() returns 0 in the same state,
\* which is exactly when the chain from head has no node.
C14_EmptyIffSize ==
  \A t \in Threads :
    /\ Done(t, "empty") => /\ res[t].b = (RetSize(size_).n = 0)
                           /\ res[t].b = (Fwd = <<>>)
    /\ Done(t, "size") => /\ (res[t].n = 0) = RetBool(size_ = 0).b
                          /\ res[t].n = Len(Fwd)

\* C14 witness: empty() returned false on a list of two nodes.
C14_Witness ==
  \E t \in Threads :
    /\ Done(t, "empty")
    /\ res[t] = RetBool(FALSE)
    /\ size_ = 2

AtLockGuard(t) == pc[t] \in {"lock", "joined", "removed", "checked"}

AllReturned ==
  /\ mutex_ = NoThread
  /\ \A t \in Threads : pc[t] = "checked" /\ res[t] # NoRes

C18_Frame ==
  [][list' # list =>
       \E t \in Threads :
         /\ mutex_ = t
         /\ op[t] \in Pushes \/ (op[t] = "remove" /\ found_node[t] # NULL)]_vars

\* C18 witness: get_bwd has walked a full list, which is as it was when the
\* lock was acquired.
C18_Witness ==
  \E t \in Threads :
    /\ Done(t, "get_bwd")
    /\ Len(res[t].vec) = MaxNodes
    /\ Heap = snap

\* No pointer kept in head, in tail or in a live node refers to a released node.
NoDangling ==
  /\ head \in alloc \cup {NULL}
  /\ tail \in alloc \cup {NULL}
  /\ \A n \in alloc : next[n] \in alloc \cup {NULL} /\ prev[n] \in alloc \cup {NULL}

Overlapped ==
  \E i \in 1..Len(acq) : acq[i][1] = "~ThreadSafeList2D" /\ acq[i][2] # NoThread

\* C16: the destructor never holds mutex_, so it can begin and run while a
\* call is in flight; a released node is used or released again only in a run
\* where it did begin during a call, that is, destruction with no call in
\* flight is safe.
C16_DestructorRace ==
  /\ \A t \in Threads : pc[t] \in DtorPcs => mutex_ # t
  /\ ub => Destroying /\ Overlapped

\* C16 witness: the scan of find, inside remove and under the mutex, is at a
\* node that the destructor has already released.
C16_Witness ==
  \E t \in Threads :
    /\ mutex_ = t /\ pc[t] = "rm_scan"
    /\ node[t] \in Range(freed)
    /\ ub

====
